---- MODULE Spec2Model ----
(***************************************************************************)
(* A state-machine model of BudgetTracker (src/src/models/budget_tracker.py):*)
(* the transaction ledger, the currency conversion, the summary, the file  *)
(* export and import, the category registry, the budget configuration and  *)
(* the budget-alert evaluation.                                            *)
(*                                                                         *)
(* Amounts are Python floats in the source.  They are modelled as exact    *)
(* integers; a value in the base currency is held in units of 1/Unit USD   *)
(* so that the divisions of convert_to_usd are exact for the currencies    *)
(* the model uses.  Floating-point rounding is not modelled.               *)
(* Strings are TLA+ strings; the string conversions (strip, float,         *)
(* isoformat, fromisoformat) are tables over the strings the model uses.   *)
(***************************************************************************)
EXTENDS Integers, Sequences, FiniteSets, TLC

VARIABLES
    transactions,          \* self.transactions: the list of transaction dicts
    monthly_budget_limit,  \* self.monthly_budget_limit: None or a number
    weekly_budget_limit,   \* self.weekly_budget_limit: None or a number
    budget_limits,         \* self.budget_limits: insertion-ordered dict
    budget_settings_json,  \* the content of the file budget_settings.json
    income_categories,     \* self.income_categories: list of names
    expense_categories,    \* self.expense_categories: list of names
    categories_json,       \* the content of the file categories.json
    csv_file,              \* the content of the CSV file save_to_csv writes
    json_file,             \* the content of the JSON file save_to_json writes
    clock,                 \* index in Nows of the value of datetime.now()
    held,                  \* the list a caller got from get_transactions()
    last                   \* the last call: its name and its result

vars == <<transactions, monthly_budget_limit, weekly_budget_limit,
          budget_limits, budget_settings_json, income_categories,
          expense_categories, categories_json, csv_file, json_file,
          clock, held, last>>

budgetVars == <<monthly_budget_limit, weekly_budget_limit, budget_limits,
                budget_settings_json>>

catVars == <<income_categories, expense_categories, categories_json>>

fileVars == <<csv_file, json_file>>

----------------------------------------------------------------------------
(* Bounds *)

MaxTx == 3         \* transactions held by the ledger in Spec
MaxRows == 2       \* rows of an imported file
MaxBudgetTx == 2   \* transactions held by the ledger in SpecBudget
MaxAliasTx == 2    \* transactions held by the ledger in SpecAlias
MaxFrameTx == 1    \* transactions held by the ledger in SpecFrame

----------------------------------------------------------------------------
(* Python values *)

\* Optional values: None is the empty tuple, a value x is <<x>>.
None == << >>
Some(x) == << x >>

\* The transaction_date argument left at its default (None).
NoDate == "<None>"

Abs(x) == IF x < 0 THEN -x ELSE x

\* A strip that leaves the string as it is.
Strip_nothing(s) == s

\* str.strip() on the category strings of the model.
Strip(s) ==
    CASE s = " Food " -> "Food"
      [] s = "  "     -> ""
      [] OTHER        -> s

\* float(text) on the amount texts of the model: the texts float() accepts.
FloatTable == ("5" :> 5) @@ ("12" :> 12) @@ ("-3" :> -3) @@ ("0" :> 0)

CanFloat(text) == text \in DOMAIN FloatTable

Float(text) == FloatTable[text]

\* str(amount), as csv.writer and json.dump write a number.
Str(amount) == CHOOSE text \in DOMAIN FloatTable : FloatTable[text] = amount

\* A text read from a file opened in text mode with the default newline
\* argument: every carriage return comes back as a line feed.  {CR} and
\* {LF} stand for the two characters.
UniversalNewlines(text) ==
    CASE text = "Rent{CR}Due" -> "Rent{LF}Due"
      [] OTHER                -> text

----------------------------------------------------------------------------
(* Dates.  A datetime is [y, mo, d, h, aware]; minutes and smaller are not *)
(* modelled.  aware is TRUE for a datetime that carries a UTC offset.      *)

DT(y, mo, d, h) == [y |-> y, mo |-> mo, d |-> d, h |-> h, aware |-> FALSE]

\* Days since 1970-01-01 of the civil date y-mo-d (proleptic Gregorian).
DayNumber(y, mo, d) ==
    LET yy  == IF mo <= 2 THEN y - 1 ELSE y
        era == yy \div 400
        yoe == yy - era * 400
        mp  == IF mo > 2 THEN mo - 3 ELSE mo + 9
        doy == (153 * mp + 2) \div 5 + d - 1
        doe == yoe * 365 + yoe \div 4 - yoe \div 100 + doy
    IN era * 146097 + doe - 719468

\* The civil date <<y, mo, d>> of a day number.
CivilDate(z) ==
    LET zz  == z + 719468
        era == zz \div 146097
        doe == zz - era * 146097
        yoe == (doe - doe \div 1460 + doe \div 36524 - doe \div 146096) \div 365
        doy == doe - (365 * yoe + yoe \div 4 - yoe \div 100)
        mp  == (5 * doy + 2) \div 153
        d   == doy - (153 * mp + 2) \div 5 + 1
        mo  == IF mp < 10 THEN mp + 3 ELSE mp - 9
        y   == yoe + era * 400 + (IF mo <= 2 THEN 1 ELSE 0)
    IN <<y, mo, d>>

\* datetime.weekday(): Monday is 0, Sunday is 6.
Weekday(dt) == (DayNumber(dt.y, dt.mo, dt.d) + 3) % 7

\* dt - timedelta(days=n)
MinusDays(dt, n) ==
    LET c == CivilDate(DayNumber(dt.y, dt.mo, dt.d) - n)
    IN [dt EXCEPT !.y = c[1], !.mo = c[2], !.d = c[3]]

\* a <= b on naive datetimes
DtLeq(a, b) ==
    \/ a.y < b.y
    \/ a.y = b.y /\ a.mo < b.mo
    \/ a.y = b.y /\ a.mo = b.mo /\ a.d < b.d
    \/ a.y = b.y /\ a.mo = b.mo /\ a.d = b.d /\ a.h <= b.h

\* The values datetime.now() takes, in the order the clock reaches them:
\* a Sunday late evening, the Monday midnight after it, the Wednesday after.
Nows == << DT(2025, 3, 2, 23), DT(2025, 3, 3, 0), DT(2025, 3, 5, 10) >>

Now == Nows[clock]

\* datetime.fromisoformat(s.replace('Z', '+00:00')) on the date strings of
\* the model; a string outside the table raises ValueError.
DateTable ==
    ("2025-02-24T00:00:00" :> DT(2025, 2, 24, 0)) @@
    ("2025-02-26T10:00:00" :> DT(2025, 2, 26, 10)) @@
    ("2025-03-02T23:00:00" :> DT(2025, 3, 2, 23)) @@
    ("2025-03-03T00:00:00" :> DT(2025, 3, 3, 0)) @@
    ("2025-03-04T12:00:00" :> DT(2025, 3, 4, 12)) @@
    ("2025-03-05T10:00:00" :> DT(2025, 3, 5, 10)) @@
    ("2025-03-06T12:00:00" :> DT(2025, 3, 6, 12)) @@
    ("2024-03-04T12:00:00" :> DT(2024, 3, 4, 12)) @@
    ("2025-03-04T12:00:00Z" :> [DT(2025, 3, 4, 12) EXCEPT !.aware = TRUE])

CanParseDate(s) == s \in DOMAIN DateTable

fromisoformat(s) == DateTable[s]

\* datetime.isoformat() of a naive datetime: the string that parses to it.
isoformat(dt) == CHOOSE s \in DOMAIN DateTable : DateTable[s] = dt

----------------------------------------------------------------------------
(* Currency table and conversion *)

\* self.exchange_rates, each rate as the fraction <<numerator, denominator>>.
exchange_rates ==
    ("USD" :> <<1, 1>>)       @@ ("EUR" :> <<91, 100>>)  @@
    ("GBP" :> <<79, 100>>)    @@ ("JPY" :> <<14950, 100>>) @@
    ("CAD" :> <<136, 100>>)   @@ ("AUD" :> <<152, 100>>) @@
    ("CHF" :> <<87, 100>>)    @@ ("CNY" :> <<724, 100>>) @@
    ("INR" :> <<8312, 100>>)  @@ ("BRL" :> <<503, 100>>) @@
    ("PKR" :> <<278, 1>>)

\* Base-currency values are held in units of 1/Unit USD; Unit makes the
\* division by the USD and EUR rates exact.
Unit == exchange_rates["EUR"][1]

\* convert_to_usd(amount, currency), in units of 1/Unit USD.
convert_to_usd_multiply(amount, currency) ==
    IF currency \notin DOMAIN exchange_rates
    THEN amount * Unit
    ELSE (Abs(amount) * exchange_rates[currency][1] * Unit)
             \div exchange_rates[currency][2]

convert_to_usd(amount, currency) ==
    IF currency \notin DOMAIN exchange_rates
    THEN amount * Unit
    ELSE (Abs(amount) * exchange_rates[currency][2] * Unit)
             \div exchange_rates[currency][1]

----------------------------------------------------------------------------
(* The ledger *)

\* A call and its result, as the caller sees them.
Call(op, ret) == [op |-> op, ret |-> ret]

\* An element of the caller's list that is the dict object stored at
\* transactions[i] has ref = i; a dict object that is not (or no longer) in
\* the ledger has ref = 0 and its own fields in val.
NoVal == << >>
Ref(i) == [ref |-> i, val |-> NoVal]
Detached(t) == [ref |-> 0, val |-> <<t>>]

\* The caller's list after the ledger drops the object at position i.
DetachAt(h, txs, i) ==
    [k \in 1..Len(h) |->
        IF h[k].ref = i THEN Detached(txs[i])
        ELSE IF h[k].ref > i THEN Ref(h[k].ref - 1)
        ELSE h[k]]

\* The caller's list after the ledger drops every object it holds.
DetachAll(h, txs) ==
    [k \in 1..Len(h) |->
        IF h[k].ref > 0 THEN Detached(txs[h[k].ref]) ELSE h[k]]

\* add_transaction's validation (lines 64-69): TRUE when the input is rejected.
Rejected_zero_ok(amount, category, transaction_type) ==
    \/ amount < 0
    \/ category = "" \/ Strip(category) = ""
    \/ transaction_type \notin {"Income", "Expense"}

Rejected(amount, category, transaction_type) ==
    \/ amount <= 0
    \/ category = "" \/ Strip(category) = ""
    \/ transaction_type \notin {"Income", "Expense"}

\* The id given to a new transaction (line 81).
NewId_from_zero(txs) == Len(txs)

NewId(txs) == Len(txs) + 1

\* The dict add_transaction builds (lines 72-82).
NewTransaction(txs, amount, category, transaction_type, currency, transaction_date) ==
    [amount   |-> amount,
     category |-> Strip(category),
     type     |-> transaction_type,
     currency |-> currency,
     date     |-> IF transaction_date = NoDate THEN isoformat(Now)
                  ELSE transaction_date,
     id       |-> NewId(txs)]

add_transaction(amount, category, transaction_type, currency, transaction_date) ==
    /\ IF Rejected(amount, category, transaction_type)
       THEN /\ UNCHANGED transactions
            /\ last' = Call("add_transaction", "False")
       ELSE /\ transactions' = Append(transactions,
                   NewTransaction(transactions, amount, category,
                                  transaction_type, currency, transaction_date))
            /\ last' = Call("add_transaction", "True")
    /\ UNCHANGED <<budgetVars, clock, held,
                   catVars, fileVars>>

\* The sequence without its i-th element (list.pop(i)).
RemoveAt(s, i) == SubSeq(s, 1, i - 1) \o SubSeq(s, i + 1, Len(s))

\* The position remove_transaction pops: the first one carrying the id,
\* 0 when no transaction carries it (lines 178-182).
FindLast(txs, transaction_id) ==
    IF \E i \in 1..Len(txs) : txs[i].id = transaction_id
    THEN CHOOSE i \in 1..Len(txs) :
            /\ txs[i].id = transaction_id
            /\ \A j \in (i + 1)..Len(txs) : txs[j].id # transaction_id
    ELSE 0

FindFirst(txs, transaction_id) ==
    IF \E i \in 1..Len(txs) : txs[i].id = transaction_id
    THEN CHOOSE i \in 1..Len(txs) :
            /\ txs[i].id = transaction_id
            /\ \A j \in 1..(i - 1) : txs[j].id # transaction_id
    ELSE 0

remove_transaction(transaction_id) ==
    LET i == FindFirst(transactions, transaction_id) IN
    /\ IF i > 0
       THEN /\ transactions' = RemoveAt(transactions, i)
            /\ held' = DetachAt(held, transactions, i)
            /\ last' = Call("remove_transaction", "True")
       ELSE /\ UNCHANGED <<transactions, held>>
            /\ last' = Call("remove_transaction", "False")
    /\ UNCHANGED <<budgetVars, clock, catVars, fileVars>>

\* A clear that also drops the category limits.
clear_all_transactions_and_limits ==
    /\ transactions' = << >>
    /\ held' = DetachAll(held, transactions)
    /\ budget_limits' = << >>
    /\ last' = Call("clear_all_transactions", "None")
    /\ UNCHANGED <<monthly_budget_limit, weekly_budget_limit,
                   budget_settings_json, clock, catVars, fileVars>>

clear_all_transactions ==
    /\ transactions' = << >>
    /\ held' = DetachAll(held, transactions)
    /\ last' = Call("clear_all_transactions", "None")
    /\ UNCHANGED <<budgetVars, clock, catVars, fileVars>>

----------------------------------------------------------------------------
(* Import.  A row of a file is [keys, date, amount, currency, category,   *)
(* type]: keys is the set of fields the row has (for a CSV file, the       *)
(* cells of the line), the other fields are the texts written there.       *)

required_fields == {"date", "amount", "category", "type"}

\* The loop that builds loaded_transactions (lines 332-346 and 381-395):
\* fault is TRUE when float() raised.
RECURSIVE LoadLoop(_, _, _)
LoadLoop(rows, i, loaded) ==
    IF i > Len(rows) THEN [fault |-> FALSE, loaded |-> loaded]
    ELSE LET row == rows[i] IN
         IF ~(required_fields \subseteq row.keys)
         THEN LoadLoop(rows, i + 1, loaded)
         ELSE IF ~CanFloat(row.amount)
         THEN [fault |-> TRUE, loaded |-> loaded]
         ELSE LoadLoop(rows, i + 1, Append(loaded,
                [date     |-> row.date,
                 amount   |-> Float(row.amount),
                 currency |-> IF "currency" \in row.keys THEN row.currency
                              ELSE "USD",
                 category |-> row.category,
                 type     |-> row.type,
                 id       |-> Len(loaded) + 1]))

\* The value csv.DictReader gives a column whose cell the line lacks.
restval == "<None>"

\* The dicts csv.DictReader yields for the lines of a file read in text
\* mode (lines 329-332): each has every column of the header.
DictReader(file) ==
    [i \in 1..Len(file.rows) |->
        LET row == file.rows[i]
            Cell(field, text) ==
                IF field \in row.keys THEN UniversalNewlines(text)
                ELSE restval
        IN [keys     |-> file.header,
            date     |-> Cell("date", row.date),
            amount   |-> Cell("amount", row.amount),
            currency |-> Cell("currency", row.currency),
            category |-> Cell("category", row.category),
            type     |-> Cell("type", row.type)]]

\* file is [exists, header, rows]: a CSV file with the columns header.
load_from_csv_in_place(file) ==
    LET r == LoadLoop(DictReader(file), 1, << >>) IN
    /\ IF ~file.exists
       THEN /\ UNCHANGED <<transactions, held>>
            /\ last' = Call("load_from_csv", "False")
       ELSE /\ transactions' = r.loaded
            /\ held' = DetachAll(held, transactions)
            /\ last' = Call("load_from_csv",
                            IF r.fault THEN "False" ELSE "True")
    /\ UNCHANGED <<budgetVars, clock, catVars, fileVars>>

load_from_csv(file) ==
    LET r == LoadLoop(DictReader(file), 1, << >>) IN
    /\ IF ~file.exists \/ r.fault
       THEN /\ UNCHANGED <<transactions, held>>
            /\ last' = Call("load_from_csv", "False")
       ELSE /\ transactions' = r.loaded
            /\ held' = DetachAll(held, transactions)
            /\ last' = Call("load_from_csv", "True")
    /\ UNCHANGED <<budgetVars, clock, catVars, fileVars>>

\* file is [exists, shape, rows]: shape is "list" for a bare array, "dict"
\* for an object with a transactions array, "other" for any other JSON
\* value and "malformed" for a text json.load() rejects.
load_from_json(file) ==
    LET r == LoadLoop(file.rows, 1, << >>) IN
    /\ IF \/ ~file.exists
          \/ file.shape \notin {"list", "dict"}
          \/ r.fault
       THEN /\ UNCHANGED <<transactions, held>>
            /\ last' = Call("load_from_json", "False")
       ELSE /\ transactions' = r.loaded
            /\ held' = DetachAll(held, transactions)
            /\ last' = Call("load_from_json", "True")
    /\ UNCHANGED <<budgetVars, clock, catVars, fileVars>>

----------------------------------------------------------------------------
(* Export.  The value of the usd_value column (the converted amount        *)
(* rounded to 2 places) is not modelled: no import reads it.               *)

fieldnames == {"date", "amount", "currency", "category", "type", "usd_value"}

\* The text csv.writer writes for a value: the empty text for None.
CsvText(value) == IF value = restval THEN "" ELSE value

\* The lines save_to_csv writes (lines 262-273), one per transaction.
CsvLines(txs) ==
    [i \in 1..Len(txs) |->
        [keys     |-> fieldnames,
         date     |-> CsvText(txs[i].date),
         amount   |-> Str(txs[i].amount),
         currency |-> CsvText(txs[i].currency),
         category |-> CsvText(txs[i].category),
         type     |-> CsvText(txs[i].type)]]

\* save_to_csv (lines 246-277); write_ok is FALSE when open() raises.
save_to_csv(write_ok) ==
    /\ IF write_ok
       THEN /\ csv_file' = Some([exists |-> TRUE, header |-> fieldnames,
                                 rows |-> CsvLines(transactions)])
            /\ last' = Call("save_to_csv", "True")
       ELSE /\ UNCHANGED csv_file
            /\ last' = Call("save_to_csv", "False")
    /\ UNCHANGED <<transactions, budgetVars, catVars, json_file, clock, held>>

\* The objects save_to_json writes under 'transactions' (lines 299-305):
\* a copy of each dict with usd_value added; the amount as its literal.
JsonObjects(txs) ==
    [i \in 1..Len(txs) |->
        [keys     |-> fieldnames \cup {"id"},
         date     |-> txs[i].date,
         amount   |-> Str(txs[i].amount),
         currency |-> txs[i].currency,
         category |-> txs[i].category,
         type     |-> txs[i].type]]

\* save_to_json (lines 279-312); write_ok is FALSE when open() raises.
save_to_json(write_ok) ==
    /\ IF write_ok
       THEN /\ json_file' = Some([exists |-> TRUE, shape |-> "dict",
                                  rows |-> JsonObjects(transactions)])
            /\ last' = Call("save_to_json", "True")
       ELSE /\ UNCHANGED json_file
            /\ last' = Call("save_to_json", "False")
    /\ UNCHANGED <<transactions, budgetVars, catVars, csv_file, clock, held>>

\* The file save_to_csv wrote, as load_from_csv finds it.
SavedCsv ==
    IF csv_file = None THEN [exists |-> FALSE, header |-> {}, rows |-> << >>]
    ELSE csv_file[1]

\* The file save_to_json wrote, as load_from_json finds it.
SavedJson ==
    IF json_file = None
    THEN [exists |-> FALSE, shape |-> "list", rows |-> << >>]
    ELSE json_file[1]

----------------------------------------------------------------------------
(* list() and what a caller does with the list it returns *)

\* get_transactions (line 114): list.copy() makes a new list of the same
\* dict objects.
get_transactions ==
    /\ held' = [k \in 1..Len(transactions) |-> Ref(k)]
    /\ last' = Call("get_transactions", "list")
    /\ UNCHANGED <<transactions, budgetVars, clock, catVars, fileVars>>

\* The caller appends a dict of its own to the list it holds.
caller_append(t) ==
    /\ held' = Append(held, Detached(t))
    /\ last' = Call("caller_append", "None")
    /\ UNCHANGED <<transactions, budgetVars, clock, catVars, fileVars>>

\* The caller removes the k-th element of the list it holds.
caller_pop(k) ==
    /\ k \in 1..Len(held)
    /\ held' = RemoveAt(held, k)
    /\ last' = Call("caller_pop", "None")
    /\ UNCHANGED <<transactions, budgetVars, clock, catVars, fileVars>>

\* The caller assigns to the 'amount' field of the k-th dict of its list:
\* held[k]['amount'] = amount.
caller_set_amount(k, amount) ==
    /\ k \in 1..Len(held)
    /\ IF held[k].ref > 0
       THEN /\ transactions' =
                   [transactions EXCEPT ![held[k].ref].amount = amount]
            /\ UNCHANGED held
       ELSE /\ held' = [held EXCEPT ![k] =
                   Detached([held[k].val[1] EXCEPT !.amount = amount])]
            /\ UNCHANGED transactions
    /\ last' = Call("caller_set_amount", "None")
    /\ UNCHANGED <<budgetVars, clock, catVars, fileVars>>

----------------------------------------------------------------------------
(* Summary *)

\* The loop of get_summary (lines 123-134): <<total_income, total_expenses>>.
RECURSIVE SummaryLoop_all_income(_, _, _, _)
SummaryLoop_all_income(txs, i, total_income_usd, total_expenses_usd) ==
    IF i > Len(txs) THEN <<total_income_usd, total_expenses_usd>>
    ELSE LET amount_usd == convert_to_usd(txs[i].amount, txs[i].currency) IN
         IF txs[i].type \in {"Income", "Expense"}
         THEN SummaryLoop_all_income(txs, i + 1,
                  total_income_usd + amount_usd, total_expenses_usd)
         ELSE SummaryLoop_all_income(txs, i + 1,
                  total_income_usd, total_expenses_usd)

RECURSIVE SummaryLoop(_, _, _, _)
SummaryLoop(txs, i, total_income_usd, total_expenses_usd) ==
    IF i > Len(txs) THEN <<total_income_usd, total_expenses_usd>>
    ELSE LET amount_usd == convert_to_usd(txs[i].amount, txs[i].currency) IN
         IF txs[i].type = "Income"
         THEN SummaryLoop(txs, i + 1,
                  total_income_usd + amount_usd, total_expenses_usd)
         ELSE IF txs[i].type = "Expense"
         THEN SummaryLoop(txs, i + 1,
                  total_income_usd, total_expenses_usd + amount_usd)
         ELSE SummaryLoop(txs, i + 1, total_income_usd, total_expenses_usd)

\* get_summary() on the ledger txs (lines 116-142), in units of 1/Unit USD.
get_summary(txs) ==
    LET totals == SummaryLoop(txs, 1, 0, 0) IN
    [total_income   |-> totals[1],
     total_expenses |-> totals[2],
     net_balance    |-> totals[1] - totals[2]]

\* get_transaction_count() (line 190).
get_transaction_count(txs) == Len(txs)

\* The loop of get_primary_currency (lines 240-242): currency_counts is the
\* dict in insertion order, a sequence of [currency, count].
RECURSIVE CurrencyLoop(_, _, _)
CurrencyLoop(txs, i, currency_counts) ==
    IF i > Len(txs) THEN currency_counts
    ELSE LET currency == txs[i].currency IN
         IF \E k \in 1..Len(currency_counts) :
                currency_counts[k].currency = currency
         THEN CurrencyLoop(txs, i + 1,
                  [k \in 1..Len(currency_counts) |->
                      IF currency_counts[k].currency = currency
                      THEN [currency |-> currency,
                            count |-> currency_counts[k].count + 1]
                      ELSE currency_counts[k]])
         ELSE CurrencyLoop(txs, i + 1,
                  Append(currency_counts,
                         [currency |-> currency, count |-> 1]))

\* A max that returns the last of the keys with the greatest count.
MaxKey_last(currency_counts) ==
    LET k == CHOOSE k \in 1..Len(currency_counts) :
                 /\ \A j \in 1..Len(currency_counts) :
                       currency_counts[j].count <= currency_counts[k].count
                 /\ \A j \in (k + 1)..Len(currency_counts) :
                       currency_counts[j].count < currency_counts[k].count
    IN currency_counts[k].currency

\* max(currency_counts, key=currency_counts.get) (line 244): the first key,
\* in the order of the dict, whose count no other exceeds.
MaxKey(currency_counts) ==
    LET k == CHOOSE k \in 1..Len(currency_counts) :
                 /\ \A j \in 1..Len(currency_counts) :
                       currency_counts[j].count <= currency_counts[k].count
                 /\ \A j \in 1..(k - 1) :
                       currency_counts[j].count < currency_counts[k].count
    IN currency_counts[k].currency

\* get_primary_currency (lines 229-244).
get_primary_currency(txs) ==
    IF txs = << >> THEN "USD"
    ELSE MaxKey(CurrencyLoop(txs, 1, << >>))

----------------------------------------------------------------------------
(* Budget configuration.  budget_limits is the dict in insertion order: a  *)
(* sequence of [category, limit] with each category at most once.          *)

\* The document save_budget_settings writes (lines 655-659).
BudgetData(monthly, weekly, limits) ==
    [monthly_budget_limit |-> monthly,
     weekly_budget_limit  |-> weekly,
     category_limits      |-> limits]

\* budget_settings.json after save_budget_settings (lines 652-666): written
\* in full when the write succeeds, left as it was when open() fails.
save_budget_settings(file, monthly, weekly, limits, write_ok) ==
    IF write_ok THEN Some(BudgetData(monthly, weekly, limits)) ELSE file

\* A dict whose assignment moves an existing key to the end.
DictSet_move_to_end(limits, category, limit) ==
    Append(SelectSeq(limits, LAMBDA e : e.category # category),
           [category |-> category, limit |-> limit])

\* dict[category] = limit: an existing key keeps its place.
DictSet(limits, category, limit) ==
    IF \E k \in 1..Len(limits) : limits[k].category = category
    THEN [k \in 1..Len(limits) |->
            IF limits[k].category = category
            THEN [category |-> category, limit |-> limit]
            ELSE limits[k]]
    ELSE Append(limits, [category |-> category, limit |-> limit])

\* A deletion that empties the dict.
DictDel_all(limits, category) == << >>

\* del dict[category]
DictDel(limits, category) ==
    SelectSeq(limits, LAMBDA e : e.category # category)

\* A setter that takes the limit back when the write fails.
set_monthly_budget_rollback(limit, write_ok) ==
    /\ monthly_budget_limit' =
           IF write_ok THEN Some(limit) ELSE monthly_budget_limit
    /\ budget_settings_json' =
           save_budget_settings(budget_settings_json, Some(limit),
                                weekly_budget_limit, budget_limits, write_ok)
    /\ last' = Call("set_monthly_budget", "None")
    /\ UNCHANGED <<transactions, weekly_budget_limit, budget_limits, clock, held,
                   catVars, fileVars>>

set_monthly_budget(limit, write_ok) ==
    /\ monthly_budget_limit' = Some(limit)
    /\ budget_settings_json' =
           save_budget_settings(budget_settings_json, Some(limit),
                                weekly_budget_limit, budget_limits, write_ok)
    /\ last' = Call("set_monthly_budget", "None")
    /\ UNCHANGED <<transactions, weekly_budget_limit, budget_limits, clock, held,
                   catVars, fileVars>>

set_weekly_budget(limit, write_ok) ==
    /\ weekly_budget_limit' = Some(limit)
    /\ budget_settings_json' =
           save_budget_settings(budget_settings_json, monthly_budget_limit,
                                Some(limit), budget_limits, write_ok)
    /\ last' = Call("set_weekly_budget", "None")
    /\ UNCHANGED <<transactions, monthly_budget_limit, budget_limits, clock, held,
                   catVars, fileVars>>

set_category_budget(category, limit, write_ok) ==
    /\ budget_limits' = DictSet(budget_limits, category, limit)
    /\ budget_settings_json' =
           save_budget_settings(budget_settings_json, monthly_budget_limit,
                                weekly_budget_limit,
                                DictSet(budget_limits, category, limit), write_ok)
    /\ last' = Call("set_category_budget", "None")
    /\ UNCHANGED <<transactions, monthly_budget_limit, weekly_budget_limit,
                   clock, held,
                   catVars, fileVars>>

remove_category_budget(category, write_ok) ==
    /\ IF \E k \in 1..Len(budget_limits) : budget_limits[k].category = category
       THEN /\ budget_limits' = DictDel(budget_limits, category)
            /\ budget_settings_json' =
                   save_budget_settings(budget_settings_json,
                                        monthly_budget_limit, weekly_budget_limit,
                                        DictDel(budget_limits, category), write_ok)
            /\ last' = Call("remove_category_budget", "True")
       ELSE /\ UNCHANGED <<budget_limits, budget_settings_json>>
            /\ last' = Call("remove_category_budget", "False")
    /\ UNCHANGED <<transactions, monthly_budget_limit, weekly_budget_limit,
                   clock, held,
                   catVars, fileVars>>

----------------------------------------------------------------------------
(* Category registry.  The two category lists are sequences of names.      *)

\* x in list
InList(list, x) == \E k \in 1..Len(list) : list[k] = x

\* list.remove(x): the list without the first element equal to x.
ListRemove_none(list, x) == list

ListRemove(list, x) ==
    LET i == CHOOSE k \in 1..Len(list) :
                 list[k] = x /\ \A j \in 1..(k - 1) : list[j] # x
    IN RemoveAt(list, i)

\* The document save_categories writes (lines 483-486).
CategoriesData(income, expense) ==
    [income_categories |-> income, expense_categories |-> expense]

\* categories.json after save_categories (lines 480-493): written in full
\* when the write succeeds, left as it was when open() fails.
save_categories_stale(file, income, expense, write_ok) ==
    IF write_ok
    THEN Some(CategoriesData(income_categories, expense_categories))
    ELSE file

save_categories(file, income, expense, write_ok) ==
    IF write_ok THEN Some(CategoriesData(income, expense)) ELSE file

\* get_categories(transaction_type) (lines 405-420); any other value of
\* transaction_type, None included, gives both lists.
get_categories(transaction_type) ==
    IF transaction_type = "Income" THEN income_categories
    ELSE IF transaction_type = "Expense" THEN expense_categories
    ELSE income_categories \o expense_categories

\* is_category_in_use(category_name) (lines 476-478).
is_category_in_use_first_only(txs, category_name) ==
    Len(txs) > 0 /\ txs[1].category = category_name

is_category_in_use(txs, category_name) ==
    \E i \in 1..Len(txs) : txs[i].category = category_name

\* TRUE when add_category appends the name (lines 433-446).
CategoryIsNew_any_kind(name, transaction_type) ==
    \/ transaction_type = "Income"
           /\ ~InList(income_categories \o expense_categories, name)
    \/ transaction_type = "Expense"
           /\ ~InList(income_categories \o expense_categories, name)

CategoryIsNew(name, transaction_type) ==
    \/ transaction_type = "Income" /\ ~InList(income_categories, name)
    \/ transaction_type = "Expense" /\ ~InList(expense_categories, name)

add_category(category_name, transaction_type, write_ok) ==
    LET name == Strip(category_name)
        income == IF transaction_type = "Income"
                  THEN Append(income_categories, name)
                  ELSE income_categories
        expense == IF transaction_type = "Expense"
                   THEN Append(expense_categories, name)
                   ELSE expense_categories
    IN
    /\ IF name # "" /\ CategoryIsNew(name, transaction_type)
       THEN /\ income_categories' = income
            /\ expense_categories' = expense
            /\ categories_json' =
                   save_categories(categories_json, income, expense, write_ok)
            /\ last' = Call("add_category", "True")
       ELSE /\ UNCHANGED catVars
            /\ last' = Call("add_category", "False")
    /\ UNCHANGED <<transactions, budgetVars, fileVars, clock, held>>

\* TRUE when remove_category finds the name in the list of the type
\* (lines 465 and 469).
CategoryIsListed(name, transaction_type) ==
    \/ transaction_type = "Income" /\ InList(income_categories, name)
    \/ transaction_type = "Expense" /\ InList(expense_categories, name)

remove_category(category_name, transaction_type, write_ok) ==
    LET income == IF transaction_type = "Income"
                  THEN ListRemove(income_categories, category_name)
                  ELSE income_categories
        expense == IF transaction_type = "Expense"
                   THEN ListRemove(expense_categories, category_name)
                   ELSE expense_categories
    IN
    /\ IF /\ ~is_category_in_use(transactions, category_name)
          /\ CategoryIsListed(category_name, transaction_type)
       THEN /\ income_categories' = income
            /\ expense_categories' = expense
            /\ categories_json' =
                   save_categories(categories_json, income, expense, write_ok)
            /\ last' = Call("remove_category", "True")
       ELSE /\ UNCHANGED catVars
            /\ last' = Call("remove_category", "False")
    /\ UNCHANGED <<transactions, budgetVars, fileVars, clock, held>>

----------------------------------------------------------------------------
(* Budget status.  A result is [fault, value]: fault names the exception   *)
(* the code raises ("None" when it raises none).                           *)

Ok(v) == [fault |-> "None", value |-> v]
Raise(e) == [fault |-> e, value |-> 0]

\* The loop of _get_expenses_in_period (lines 623-631).
RECURSIVE ExpensesLoop(_, _, _, _, _)
ExpensesLoop(txs, i, start_date, end_date, total) ==
    IF i > Len(txs) THEN Ok(total)
    ELSE IF txs[i].type # "Expense"
    THEN ExpensesLoop(txs, i + 1, start_date, end_date, total)
    ELSE IF ~CanParseDate(txs[i].date) THEN Raise("ValueError")
    ELSE LET transaction_date == fromisoformat(txs[i].date) IN
         IF transaction_date.aware THEN Raise("TypeError")
         ELSE IF DtLeq(start_date, transaction_date)
                 /\ DtLeq(transaction_date, end_date)
         THEN ExpensesLoop(txs, i + 1, start_date, end_date,
                  total + convert_to_usd(txs[i].amount, txs[i].currency))
         ELSE ExpensesLoop(txs, i + 1, start_date, end_date, total)

\* The loop of _get_category_expenses_current_month (lines 640-650); the
\* totals are a function from the categories met to their sums.
RECURSIVE CategoryLoop(_, _, _, _)
CategoryLoop(txs, i, month_start, category_totals) ==
    IF i > Len(txs) THEN Ok(category_totals)
    ELSE IF txs[i].type # "Expense"
    THEN CategoryLoop(txs, i + 1, month_start, category_totals)
    ELSE IF ~CanParseDate(txs[i].date) THEN Raise("ValueError")
    ELSE LET transaction_date == fromisoformat(txs[i].date)
             category == txs[i].category
             usd_amount == convert_to_usd(txs[i].amount, txs[i].currency)
             before == IF category \in DOMAIN category_totals
                       THEN category_totals[category] ELSE 0
         IN
         IF transaction_date.aware THEN Raise("TypeError")
         ELSE IF DtLeq(month_start, transaction_date)
         THEN CategoryLoop(txs, i + 1, month_start,
                  (category :> before + usd_amount) @@ category_totals)
         ELSE CategoryLoop(txs, i + 1, month_start, category_totals)

\* now.replace(day=1, hour=0, minute=0, second=0, microsecond=0) (line 547).
current_month_start_year_before(now) ==
    [now EXCEPT !.y = now.y - 1, !.d = 1, !.h = 0]

current_month_start(now) == [now EXCEPT !.d = 1, !.h = 0]

\* The start of the current week (lines 551-553).
current_week_start_untruncated(now) == MinusDays(now, Weekday(now))

current_week_start(now) == [MinusDays(now, Weekday(now)) EXCEPT !.h = 0]

\* An alert dict; message holds the values the message text is built from.
Alert(type, severity, message) ==
    [type |-> type, severity |-> severity, message |-> message]

\* (spent / limit) * 100 >= 80 for a limit other than 0 (lines 570, 586, 604);
\* spent is in units of 1/Unit USD, limit in USD.
AtLeast80Percent_strict(spent, limit) ==
    IF limit > 0 THEN spent * 100 > 80 * limit * Unit
    ELSE spent * 100 < 80 * limit * Unit

AtLeast80Percent(spent, limit) ==
    IF limit > 0 THEN spent * 100 >= 80 * limit * Unit
    ELSE spent * 100 <= 80 * limit * Unit

\* if limit: ... of the monthly and weekly checks (lines 562, 578).
Truthy(limit) == limit # None /\ limit[1] # 0

\* The monthly check (lines 562-575).
monthly_alerts(monthly_expenses, limit) ==
    IF ~Truthy(limit) THEN << >>
    ELSE IF monthly_expenses >= limit[1] * Unit
    THEN << Alert("monthly_exceeded", "critical",
                  <<monthly_expenses, limit[1]>>) >>
    ELSE IF AtLeast80Percent(monthly_expenses, limit[1])
    THEN << Alert("monthly_warning", "warning",
                  <<monthly_expenses, limit[1]>>) >>
    ELSE << >>

\* The weekly check (lines 578-591).
weekly_alerts(weekly_expenses, limit) ==
    IF ~Truthy(limit) THEN << >>
    ELSE IF weekly_expenses >= limit[1] * Unit
    THEN << Alert("weekly_exceeded", "critical",
                  <<weekly_expenses, limit[1]>>) >>
    ELSE IF AtLeast80Percent(weekly_expenses, limit[1])
    THEN << Alert("weekly_warning", "warning",
                  <<weekly_expenses, limit[1]>>) >>
    ELSE << >>

\* The category checks (lines 594-609), from the k-th configured limit on.
RECURSIVE category_alerts(_, _, _)
category_alerts(limits, k, category_expenses) ==
    IF k > Len(limits) THEN Ok(<< >>)
    ELSE LET category == limits[k].category
             limit == limits[k].limit
             spent == IF category \in DOMAIN category_expenses
                      THEN category_expenses[category] ELSE 0
             rest == category_alerts(limits, k + 1, category_expenses)
         IN
         IF ~(spent > 0) THEN rest
         ELSE IF limit = 0 THEN Raise("ZeroDivisionError")
         ELSE IF rest.fault # "None" THEN rest
         ELSE IF spent >= limit * Unit
         THEN Ok(<< Alert("category_exceeded", "critical",
                          <<category, spent, limit>>) >> \o rest.value)
         ELSE IF AtLeast80Percent(spent, limit)
         THEN Ok(<< Alert("category_warning", "warning",
                          <<category, spent, limit>>) >> \o rest.value)
         ELSE rest

\* The dict get_budget_status returns (lines 611-619).
Status(m_spent, monthly, w_spent, weekly, c_spent, limits, alerts) ==
    [monthly_spent     |-> m_spent,
     monthly_limit     |-> monthly,
     weekly_spent      |-> w_spent,
     weekly_limit      |-> weekly,
     category_expenses |-> c_spent,
     category_limits   |-> limits,
     alerts            |-> alerts]

\* get_budget_status() (lines 540-619) on the ledger txs at the time now
\* with the limits monthly, weekly and limits.  Both reads of the clock
\* (lines 544 and 637) are taken to return the same value.
get_budget_status(txs, now, monthly, weekly, limits) ==
    LET monthly_expenses ==
            ExpensesLoop(txs, 1, current_month_start(now), now, 0)
        weekly_expenses ==
            ExpensesLoop(txs, 1, current_week_start(now), now, 0)
        category_expenses ==
            CategoryLoop(txs, 1, current_month_start(now), << >>)
        category ==
            category_alerts(limits, 1, category_expenses.value)
    IN
    IF monthly_expenses.fault # "None" THEN Raise(monthly_expenses.fault)
    ELSE IF weekly_expenses.fault # "None" THEN Raise(weekly_expenses.fault)
    ELSE IF category_expenses.fault # "None"
    THEN Raise(category_expenses.fault)
    ELSE IF category.fault # "None" THEN Raise(category.fault)
    ELSE Ok(Status(monthly_expenses.value, monthly, weekly_expenses.value,
                   weekly, category_expenses.value, limits,
                   monthly_alerts(monthly_expenses.value, monthly)
                   \o weekly_alerts(weekly_expenses.value, weekly)
                   \o category.value))

\* The clock moves on to its next value.
tick ==
    /\ clock < Len(Nows)
    /\ clock' = clock + 1
    /\ last' = Call("tick", "None")
    /\ UNCHANGED <<transactions, budgetVars, held, catVars, fileVars>>

----------------------------------------------------------------------------
(* Construction *)

\* The default category lists (lines 19-20).
default_income_categories ==
    << "Salary", "Freelance", "Business", "Investment", "Gift",
       "Other Income" >>

default_expense_categories ==
    << "Food", "Transportation", "Entertainment", "Bills", "Shopping",
       "Healthcare", "Education", "Other Expense" >>

\* The category lists after load_categories (lines 495-514): those of the
\* document in categories.json, the ones given when there is no file.
load_categories(file, income, expense) ==
    IF file = None THEN [income |-> income, expense |-> expense]
    ELSE [income  |-> file[1].income_categories,
          expense |-> file[1].expense_categories]

\* The budget fields after load_budget_settings (lines 668-685): those of
\* the document in budget_settings.json, the ones given when there is no
\* file.
load_budget_settings_no_limits(file, monthly, weekly, limits) ==
    IF file = None
    THEN [monthly |-> monthly, weekly |-> weekly, limits |-> limits]
    ELSE [monthly |-> file[1].monthly_budget_limit,
          weekly  |-> file[1].weekly_budget_limit,
          limits  |-> limits]

load_budget_settings(file, monthly, weekly, limits) ==
    IF file = None
    THEN [monthly |-> monthly, weekly |-> weekly, limits |-> limits]
    ELSE [monthly |-> file[1].monthly_budget_limit,
          weekly  |-> file[1].weekly_budget_limit,
          limits  |-> file[1].category_limits]

\* BudgetTracker() (lines 14-46): a new tracker, constructed with the side
\* files the previous one left on disk; the caller's list keeps the dicts
\* of the previous tracker.
BudgetTracker ==
    LET categories == load_categories(categories_json,
                          default_income_categories,
                          default_expense_categories)
        budget == load_budget_settings(budget_settings_json, None, None,
                                       << >>)
    IN
    /\ transactions' = << >>
    /\ held' = DetachAll(held, transactions)
    /\ income_categories' = categories.income
    /\ expense_categories' = categories.expense
    /\ monthly_budget_limit' = budget.monthly
    /\ weekly_budget_limit' = budget.weekly
    /\ budget_limits' = budget.limits
    /\ last' = Call("__init__", "None")
    /\ UNCHANGED <<budget_settings_json, categories_json, fileVars, clock>>

----------------------------------------------------------------------------
(* The state after BudgetTracker() with no side file on disk (lines 14-46) *)

Init ==
    /\ transactions = << >>
    /\ monthly_budget_limit = None
    /\ weekly_budget_limit = None
    /\ budget_limits = << >>
    /\ budget_settings_json = None
    /\ income_categories = default_income_categories
    /\ expense_categories = default_expense_categories
    /\ categories_json = None
    /\ csv_file = None
    /\ json_file = None
    /\ clock = 1
    /\ held = << >>
    /\ last = Call("__init__", "None")

\* All sequences over S of length at most n.
SeqsUpTo(S, n) == UNION {[1..k -> S] : k \in 0..n}

----------------------------------------------------------------------------
(* Spec: the ledger under add, remove, clear and the two imports *)

Ids == 0..(MaxTx + 1)

AllKeys == {"date", "amount", "currency", "category", "type"}

Row(keys, date, amount, currency, category, type) ==
    [keys |-> keys, date |-> date, amount |-> amount, currency |-> currency,
     category |-> category, type |-> type]

\* The rows of the files the model imports: a well-formed row; a row no
\* add would accept; a row whose amount is no number; a row with no
\* currency; a row with no type.
Rows ==
    { Row(AllKeys, "2025-03-04T12:00:00", "5", "EUR", "Food", "Expense"),
      Row(AllKeys, "2025-03-04T12:00:00", "-3", "XXX", "", "Transfer"),
      Row(AllKeys, "2025-03-04T12:00:00", "abc", "USD", "Food", "Income"),
      Row(AllKeys \ {"currency"}, "2025-03-04T12:00:00", "12", "", "Food",
          "Income"),
      Row(AllKeys \ {"type"}, "2025-03-04T12:00:00", "5", "USD", "Food", "") }

\* The CSV files: the header has the columns some line has a cell for; a
\* line may stop before the last columns of the header.
CsvFiles ==
    { [exists |-> FALSE, header |-> {}, rows |-> << >>] } \cup
    { [exists |-> TRUE,
       header |-> UNION {rows[i].keys : i \in 1..Len(rows)},
       rows |-> rows] :
        rows \in { r \in SeqsUpTo(Rows, MaxRows) :
                     \A i, j \in 1..Len(r) :
                        r[i].keys \subseteq r[j].keys
                        \/ r[j].keys \subseteq r[i].keys } }

JsonFiles ==
    { [exists |-> FALSE, shape |-> "list", rows |-> << >>],
      [exists |-> TRUE, shape |-> "malformed", rows |-> << >>],
      [exists |-> TRUE, shape |-> "other", rows |-> << >>] } \cup
    { [exists |-> TRUE, shape |-> shape, rows |-> rows] :
        shape \in {"list", "dict"}, rows \in SeqsUpTo(Rows, MaxRows) }

\* The calls of add_transaction: amount, category, type, currency.  Two
\* valid calls, and calls with one invalid value each.
AddCalls ==
    { <<12, " Food ", "Income", "USD">>,
      <<5, " Food ", "Expense", "EUR">>,
      <<0, " Food ", "Expense", "USD">>,
      <<-2, " Food ", "Expense", "USD">>,
      <<5, "", "Income", "EUR">>,
      <<5, "  ", "Income", "EUR">>,
      <<5, " Food ", "NotAKind", "USD">> }

Add ==
    \E c \in AddCalls :
        /\ Len(transactions) < MaxTx \/ Rejected(c[1], c[2], c[3])
        /\ add_transaction(c[1], c[2], c[3], c[4], NoDate)

Remove == \E id \in Ids : remove_transaction(id)

Clear == clear_all_transactions

LoadCsv == \E file \in CsvFiles : load_from_csv(file)

LoadJson == \E file \in JsonFiles : load_from_json(file)

Next == Add \/ Remove \/ Clear \/ LoadCsv \/ LoadJson

Spec == Init /\ [][Next]_vars

\* The ledger under add, remove and clear alone.
NextLedger == Add \/ Remove \/ Clear

SpecLedger == Init /\ [][NextLedger]_vars

----------------------------------------------------------------------------
(* SpecAlias: the ledger and a caller that holds the list list() returned *)

AliasAdds ==
    { <<5, "Rent", "Income", "USD">>, <<5, " Food ", "Expense", "EUR">> }

\* A dict the caller built itself.
CallerDict ==
    [amount |-> 1, category |-> "Mine", type |-> "Expense",
     currency |-> "USD", date |-> "2025-03-04T12:00:00", id |-> 1]

CallerAmounts == {-7}

AliasAdd ==
    \E a \in AliasAdds :
        /\ Len(transactions) < MaxAliasTx
        /\ add_transaction(a[1], a[2], a[3], a[4], NoDate)

AliasRemove == \E id \in 1..MaxAliasTx : remove_transaction(id)

List == get_transactions

CallerAppend == Len(held) < MaxAliasTx /\ caller_append(CallerDict)

CallerPop == \E k \in 1..MaxAliasTx : caller_pop(k)

CallerSetAmount ==
    \E k \in 1..MaxAliasTx, amount \in CallerAmounts : caller_set_amount(k, amount)

NextAlias ==
    AliasAdd \/ AliasRemove \/ List \/ CallerAppend \/ CallerPop
    \/ CallerSetAmount

SpecAlias == Init /\ [][NextAlias]_vars

----------------------------------------------------------------------------
(* SpecBudget: expenses over the weeks around the clock, the budget        *)
(* setters and the clock                                                   *)

\* The calls of add_transaction: amount, category, type, currency, date.
BudgetAdds ==
    { <<5, "Food", "Expense", "USD", "2025-03-04T12:00:00">>,
      <<8, "Food", "Expense", "USD", "2025-03-03T00:00:00">>,
      <<5, "Rent", "Expense", "EUR", "2025-03-02T23:00:00">>,
      <<5, "Rent", "Expense", "USD", "2025-02-24T00:00:00">>,
      <<5, "Food", "Income", "USD", "2025-03-03T00:00:00">> }

Limits == {0, 10}
LimitCategories == {"Food", "Rent"}

\* The settings file is writable.
WriteOutcomes == {TRUE}

BudgetAdd ==
    \E a \in BudgetAdds :
        /\ Len(transactions) < MaxBudgetTx
        /\ add_transaction(a[1], a[2], a[3], a[4], a[5])

SetMonthly ==
    \E limit \in Limits, ok \in WriteOutcomes : set_monthly_budget(limit, ok)

SetWeekly ==
    \E limit \in Limits, ok \in WriteOutcomes : set_weekly_budget(limit, ok)

SetCategory ==
    \E category \in LimitCategories, limit \in Limits, ok \in WriteOutcomes :
        set_category_budget(category, limit, ok)

RemoveCategoryBudget ==
    \E category \in LimitCategories, ok \in WriteOutcomes :
        remove_category_budget(category, ok)

Tick == tick

NextBudget ==
    BudgetAdd \/ SetMonthly \/ SetWeekly \/ SetCategory
    \/ RemoveCategoryBudget \/ Tick

SpecBudget == Init /\ [][NextBudget]_vars

\* What get_budget_status() returns in the current state.
status ==
    get_budget_status(transactions, Now, monthly_budget_limit,
                      weekly_budget_limit, budget_limits)

----------------------------------------------------------------------------
(* SpecMonth: expenses in and around the month of the clock, and the clock *)

\* The calls of add_transaction: amount, category, type, currency, date.
\* Expenses of this month before and after the clock's values, of the month
\* before, of the same month a year before, and an Income of this month.
MonthAdds ==
    { <<5, "Food", "Expense", "USD", "2025-03-03T00:00:00">>,
      <<8, "Food", "Expense", "EUR", "2025-03-04T12:00:00">>,
      <<5, "Rent", "Expense", "USD", "2025-03-06T12:00:00">>,
      <<5, "Rent", "Expense", "USD", "2025-02-24T00:00:00">>,
      <<12, "Food", "Expense", "USD", "2024-03-04T12:00:00">>,
      <<5, "Food", "Income", "USD", "2025-03-03T00:00:00">> }

MonthAdd ==
    \E a \in MonthAdds :
        /\ Len(transactions) < MaxBudgetTx
        /\ add_transaction(a[1], a[2], a[3], a[4], a[5])

NextMonth == MonthAdd \/ Tick

SpecMonth == Init /\ [][NextMonth]_vars

----------------------------------------------------------------------------
(* SpecSettings: the category registry and the budget configuration, with  *)
(* transactions that use categories; every write of a settings file        *)
(* succeeds                                                                *)

\* The calls of add_transaction: amount, category, type, currency.
SettingsAdds ==
    { <<5, "food", "Expense", "USD">>,
      <<5, " Food ", "Income", "USD">> }

\* The names and types given to add_category and remove_category.
AddCategoryNames == {" Food ", "  ", ""}
RemoveCategoryNames == {"Food", "Gift", "Nowhere"}
CategoryTypes == {"Income", "Expense", "NotAKind"}

SettingsLimits == {10}
SettingsLimitCategories == {"Food"}

SettingsAdd ==
    \E a \in SettingsAdds :
        /\ Len(transactions) < MaxBudgetTx
        /\ add_transaction(a[1], a[2], a[3], a[4], NoDate)

SettingsRemove == \E id \in 1..MaxBudgetTx : remove_transaction(id)

AddCategory ==
    \E name \in AddCategoryNames, type \in CategoryTypes,
       ok \in WriteOutcomes :
        add_category(name, type, ok)

RemoveCategory ==
    \E name \in RemoveCategoryNames, type \in CategoryTypes,
       ok \in WriteOutcomes :
        remove_category(name, type, ok)

SettingsSetMonthly ==
    \E limit \in SettingsLimits, ok \in WriteOutcomes :
        set_monthly_budget(limit, ok)

SettingsSetWeekly ==
    \E limit \in SettingsLimits, ok \in WriteOutcomes :
        set_weekly_budget(limit, ok)

SettingsSetCategory ==
    \E category \in SettingsLimitCategories, limit \in SettingsLimits,
       ok \in WriteOutcomes :
        set_category_budget(category, limit, ok)

SettingsRemoveCategoryBudget ==
    \E category \in SettingsLimitCategories, ok \in WriteOutcomes :
        remove_category_budget(category, ok)

NextSettings ==
    SettingsAdd \/ SettingsRemove \/ AddCategory \/ RemoveCategory
    \/ SettingsSetMonthly \/ SettingsSetWeekly \/ SettingsSetCategory
    \/ SettingsRemoveCategoryBudget

SpecSettings == Init /\ [][NextSettings]_vars

----------------------------------------------------------------------------
(* SpecFiles: the ledger under add, remove and clear, exported to a CSV    *)
(* file and imported from it                                               *)

\* The calls of add_transaction: amount, category, type, currency, date.
\* One category has a carriage return inside.
FileAdds ==
    { <<12, " Food ", "Income", "USD", NoDate>>,
      <<5, "Rent{CR}Due", "Expense", "EUR", "2025-03-04T12:00:00">> }

FileAdd ==
    \E a \in FileAdds :
        /\ Len(transactions) < MaxBudgetTx
        /\ add_transaction(a[1], a[2], a[3], a[4], a[5])

FileRemove == \E id \in 1..MaxBudgetTx : remove_transaction(id)

SaveCsv == \E ok \in BOOLEAN : save_to_csv(ok)

LoadSavedCsv == load_from_csv(SavedCsv)

NextFiles == FileAdd \/ FileRemove \/ Clear \/ SaveCsv \/ LoadSavedCsv

SpecFiles == Init /\ [][NextFiles]_vars

----------------------------------------------------------------------------
(* SpecIO: the operations that read or write a file, each write either     *)
(* succeeding or failing                                                   *)

\* TRUE when open() for writing succeeds, FALSE when it raises.
IoOutcomes == BOOLEAN

IoAddCategory == \E ok \in IoOutcomes : add_category(" Food ", "Income", ok)

IoRemoveCategory == \E ok \in IoOutcomes : remove_category("Gift", "Income", ok)

IoSetMonthly ==
    \E limit \in SettingsLimits, ok \in IoOutcomes :
        set_monthly_budget(limit, ok)

IoSetWeekly ==
    \E limit \in SettingsLimits, ok \in IoOutcomes :
        set_weekly_budget(limit, ok)

IoSetCategory ==
    \E category \in SettingsLimitCategories, limit \in SettingsLimits,
       ok \in IoOutcomes :
        set_category_budget(category, limit, ok)

IoRemoveCategoryBudget ==
    \E category \in SettingsLimitCategories, ok \in IoOutcomes :
        remove_category_budget(category, ok)

SaveJson == \E ok \in IoOutcomes : save_to_json(ok)

LoadSavedJson == load_from_json(SavedJson)

NextIO ==
    IoAddCategory \/ IoRemoveCategory \/ IoSetMonthly \/ IoSetWeekly
    \/ IoSetCategory \/ IoRemoveCategoryBudget \/ SaveCsv \/ SaveJson
    \/ LoadSavedCsv \/ LoadSavedJson

SpecIO == Init /\ [][NextIO]_vars

----------------------------------------------------------------------------
(* SpecConvert: calls of convert_to_usd; the result of a call is kept as   *)
(* <<amount, currency, value returned>>                                    *)

ConvertAmounts == {-100, -3, 0, 1, 5, 12, 91, 100}

ConvertCurrencies == DOMAIN exchange_rates \cup {"XXX", ""}

Convert ==
    \E amount \in ConvertAmounts, currency \in ConvertCurrencies :
        /\ last' = Call("convert_to_usd",
                        <<amount, currency, convert_to_usd(amount, currency)>>)
        /\ UNCHANGED <<transactions, budgetVars, catVars, fileVars, clock,
                       held>>

SpecConvert == Init /\ [][Convert]_vars

----------------------------------------------------------------------------
(* SpecRestart: the category registry and the budget configuration, each   *)
(* write either succeeding or failing, and the construction of a new       *)
(* tracker on the side files left on disk                                  *)

Restart == BudgetTracker

NextRestart ==
    IoAddCategory \/ IoRemoveCategory \/ IoSetMonthly \/ IoSetWeekly
    \/ IoSetCategory \/ IoRemoveCategoryBudget \/ Restart

SpecRestart == Init /\ [][NextRestart]_vars

----------------------------------------------------------------------------
(* SpecAlerts: expenses of two categories under limits set, reset and      *)
(* removed in any order                                                    *)

\* The calls of add_transaction: amount, category, type, currency, date.
AlertAdds ==
    { <<8, "Food", "Expense", "USD", "2025-03-03T00:00:00">>,
      <<9, "Rent", "Expense", "USD", "2025-03-03T00:00:00">> }

AlertLimits == {5, 10}

AlertAdd ==
    \E a \in AlertAdds :
        /\ Len(transactions) < MaxBudgetTx
        /\ add_transaction(a[1], a[2], a[3], a[4], a[5])

AlertSetMonthly ==
    \E ok \in WriteOutcomes : set_monthly_budget(10, ok)

AlertSetWeekly ==
    \E ok \in WriteOutcomes : set_weekly_budget(10, ok)

AlertSetCategory ==
    \E category \in LimitCategories, limit \in AlertLimits,
       ok \in WriteOutcomes :
        set_category_budget(category, limit, ok)

NextAlerts ==
    AlertAdd \/ AlertSetMonthly \/ AlertSetWeekly \/ AlertSetCategory
    \/ RemoveCategoryBudget \/ Tick

SpecAlerts == Init /\ [][NextAlerts]_vars

----------------------------------------------------------------------------
(* SpecDates: transactions added with the date strings a caller may pass   *)

\* The calls of add_transaction: amount, category, type, currency, date.
\* A date in ISO format, a date that is no ISO timestamp at all, and an
\* ISO timestamp with a time-zone designator.
DateAdds ==
    { <<5, "Food", "Expense", "USD", "2025-03-03T00:00:00">>,
      <<5, "Food", "Expense", "USD", "yesterday">>,
      <<5, "Food", "Expense", "USD", "2025-03-04T12:00:00Z">>,
      <<5, "Food", "Income", "USD", "yesterday">> }

DateAdd ==
    \E a \in DateAdds :
        /\ Len(transactions) < MaxBudgetTx
        /\ add_transaction(a[1], a[2], a[3], a[4], a[5])

NextDates == DateAdd \/ FileRemove \/ Tick

SpecDates == Init /\ [][NextDates]_vars

----------------------------------------------------------------------------
(* SpecFrame: every operation of the tracker (the ledger, its export and   *)
(* import, the category registry, the budget configuration, the queries)   *)

FrameAdd ==
    /\ Len(transactions) < MaxFrameTx
    /\ add_transaction(5, "Food", "Expense", "EUR", "2025-03-02T23:00:00")

FrameRemove == \E id \in 1..MaxFrameTx : remove_transaction(id)

FrameAddCategory ==
    \E ok \in WriteOutcomes : add_category(" Food ", "Income", ok)

FrameRemoveCategory ==
    \E ok \in WriteOutcomes : remove_category("Gift", "Income", ok)

\* get_summary(): the call changes no attribute (lines 116-142).
Summarize ==
    /\ last' = Call("get_summary", get_summary(transactions))
    /\ UNCHANGED <<transactions, budgetVars, catVars, fileVars, clock, held>>

\* get_transaction_count() (lines 188-190).
Count ==
    /\ last' = Call("get_transaction_count",
                    get_transaction_count(transactions))
    /\ UNCHANGED <<transactions, budgetVars, catVars, fileVars, clock, held>>

\* get_budget_status(): the status is built in local variables and
\* returned (lines 540-619).
Evaluate ==
    /\ last' = Call("get_budget_status", status)
    /\ UNCHANGED <<transactions, budgetVars, catVars, fileVars, clock, held>>

NextFrame ==
    FrameAdd \/ FrameRemove \/ Clear \/ SaveCsv \/ SaveJson
    \/ LoadSavedCsv \/ LoadSavedJson
    \/ FrameAddCategory \/ FrameRemoveCategory
    \/ SettingsSetMonthly \/ SettingsSetWeekly \/ SettingsSetCategory
    \/ SettingsRemoveCategoryBudget
    \/ List \/ Summarize \/ Count \/ Evaluate

SpecFrame == Init /\ [][NextFrame]_vars

----------------------------------------------------------------------------
(* SpecCurrency: a ledger of transactions in several currencies            *)

CurrencyAdds == {"USD", "EUR", "GBP"}

CurrencyAdd ==
    \E currency \in CurrencyAdds :
        /\ Len(transactions) < MaxTx
        /\ add_transaction(5, "Food", "Expense", currency, NoDate)

PrimaryCurrency ==
    /\ last' = Call("get_primary_currency", get_primary_currency(transactions))
    /\ UNCHANGED <<transactions, budgetVars, catVars, fileVars, clock, held>>

NextCurrency == CurrencyAdd \/ Remove \/ PrimaryCurrency

SpecCurrency == Init /\ [][NextCurrency]_vars

----------------------------------------------------------------------------
(* Properties of the ledger *)

\* The sum of the base-currency values of the transactions at the
\* positions I of txs.
RECURSIVE SumBase(_, _)
SumBase(txs, I) ==
    IF I = {} THEN 0
    ELSE LET i == CHOOSE i \in I : TRUE IN
         convert_to_usd(txs[i].amount, txs[i].currency)
             + SumBase(txs, I \ {i})

ValidInput(amount, category, type) ==
    amount > 0 /\ Strip(category) # "" /\ type \in {"Income", "Expense"}

\* C1: a call add(amount, category, kind, currency, date) with amount > 0,
\* a category that is non-empty after trimming and kind Income or Expense
\* returns true, makes count() one larger, appends the new record at the
\* end and leaves the records before it as they were, and gives the new
\* record the id count-before + 1.
C1_ValidAddAppends ==
    [][\A c \in AddCalls :
          LET amount == c[1]  category == c[2]  type == c[3]
              currency == c[4]
          IN
          (/\ last'.op = "add_transaction"
           /\ ValidInput(amount, category, type)
           /\ add_transaction(amount, category, type, currency, NoDate))
          => /\ last'.ret = "True"
             /\ get_transaction_count(transactions')
                    = get_transaction_count(transactions) + 1
             /\ SubSeq(transactions', 1, Len(transactions)) = transactions
             /\ LET new == transactions'[Len(transactions')] IN
                  /\ new.id = get_transaction_count(transactions) + 1
                  /\ new.amount = amount
                  /\ new.category = Strip(category)
                  /\ new.type = type
                  /\ new.currency = currency]_vars

\* C1 case: an add has returned true on a ledger that already held records.
C1_Witness ==
    /\ last = Call("add_transaction", "True")
    /\ Len(transactions) >= 2

\* C2: a call to add with amount <= 0, or a category that is empty after
\* trimming, or a kind other than Income/Expense returns false and leaves
\* the transaction sequence as it was.
C2_InvalidAddRejected ==
    [][\A c \in AddCalls :
          LET amount == c[1]  category == c[2]  type == c[3]
              currency == c[4]
          IN
          (/\ last'.op = "add_transaction"
           /\ ~ValidInput(amount, category, type)
           /\ add_transaction(amount, category, type, currency, NoDate))
          => /\ last'.ret = "False"
             /\ transactions' = transactions]_vars

\* C2 case: an add has been refused on a ledger that holds records.
C2_Witness ==
    /\ last = Call("add_transaction", "False")
    /\ Len(transactions) >= 1

\* C3: every stored transaction has amount > 0, kind Income or Expense and
\* a non-empty category.
C3_StoredAreValid ==
    \A i \in 1..Len(transactions) :
        /\ transactions[i].amount > 0
        /\ transactions[i].type \in {"Income", "Expense"}
        /\ transactions[i].category # ""

\* C4: no two stored transactions have the same id, and ids increase
\* strictly along the sequence.
C4_IdsUniqueIncreasing ==
    \A i, j \in 1..Len(transactions) :
        i < j => transactions[i].id < transactions[j].id

\* C5: removeById(id) returns true exactly when some stored transaction
\* has that id; then the first transaction carrying the id, and only it, is
\* removed and the others keep their fields and order; when it returns
\* false the ledger is unchanged.
C5_RemoveFirstMatch ==
    [][\A id \in Ids :
          (last'.op = "remove_transaction" /\ remove_transaction(id)) =>
          LET n == Len(transactions)
              hits == {i \in 1..n : transactions[i].id = id}
          IN
          /\ (last'.ret = "True") <=> (hits # {})
          /\ hits = {} => transactions' = transactions
          /\ hits # {} =>
                \E i \in hits :
                    /\ \A j \in hits : i <= j
                    /\ transactions' =
                          [k \in 1..(n - 1) |->
                              IF k < i THEN transactions[k]
                              ELSE transactions[k + 1]]]_vars

\* C5 case: a removal has succeeded and left two records behind.
C5_Witness ==
    /\ last = Call("remove_transaction", "True")
    /\ Len(transactions) >= 2

\* C6: nothing a caller does to the value list() returned (adding or
\* removing elements, assigning to a field of a returned record) changes
\* the transactions the ledger holds.
C6_ListIsDefensiveCopy ==
    [][last'.op \in {"caller_append", "caller_pop", "caller_set_amount"}
          => transactions' = transactions]_vars

\* C7: summarize returns totalIncome = the sum of toBase over the Income
\* transactions, totalExpenses = the sum over the Expense transactions and
\* netBalance = totalIncome - totalExpenses.
C7_SummaryIsSumByKind ==
    LET n == Len(transactions)
        income == SumBase(transactions,
                      {i \in 1..n : transactions[i].type = "Income"})
        expenses == SumBase(transactions,
                      {i \in 1..n : transactions[i].type = "Expense"})
    IN get_summary(transactions) =
          [total_income   |-> income,
           total_expenses |-> expenses,
           net_balance    |-> income - expenses]

\* C7 case: the ledger holds an Income and an Expense in two currencies.
C7_Witness ==
    \E i, j \in 1..Len(transactions) :
        /\ transactions[i].type = "Income"
        /\ transactions[j].type = "Expense"
        /\ transactions[i].currency # transactions[j].currency
        /\ get_summary(transactions).net_balance # 0

----------------------------------------------------------------------------
(* Properties of the budget status *)

\* The alerts of the given types, in order; for a category, those whose
\* message names it.
AlertsOfType(alerts, types) ==
    SelectSeq(alerts, LAMBDA a : a.type \in types)

AlertsOfCategory(alerts, category) ==
    SelectSeq(alerts, LAMBDA a :
        a.type \in {"category_exceeded", "category_warning"}
        /\ a.message[1] = category)

\* The tiers of a scope with limit L > 0 (in USD) and spent amount S (in
\* units of 1/Unit USD): found is the scope's alerts.
Tiers(found, exceeded, warning, S, L) ==
    /\ S >= L * Unit =>
          /\ Len(found) = 1
          /\ found[1].type = exceeded
          /\ found[1].severity = "critical"
    /\ (10 * S >= 8 * L * Unit /\ S < L * Unit) =>
          /\ Len(found) = 1
          /\ found[1].type = warning
          /\ found[1].severity = "warning"
    /\ 10 * S < 8 * L * Unit => found = << >>

\* C8: for the monthly scope, the weekly scope and each configured category
\* with positive month spending, with a limit L > 0 and spent amount S, the
\* status holds exactly one critical exceeded alert and no warning when
\* S >= L, exactly one warning when 0.8 L <= S < L, and no alert of the
\* scope when S < 0.8 L.
C8_ThresholdTiers ==
    LET result == status IN
    result.fault = "None" =>
    LET st == result.value IN
    /\ (monthly_budget_limit # None /\ monthly_budget_limit[1] > 0) =>
          Tiers(AlertsOfType(st.alerts, {"monthly_exceeded", "monthly_warning"}),
                "monthly_exceeded", "monthly_warning",
                st.monthly_spent, monthly_budget_limit[1])
    /\ (weekly_budget_limit # None /\ weekly_budget_limit[1] > 0) =>
          Tiers(AlertsOfType(st.alerts, {"weekly_exceeded", "weekly_warning"}),
                "weekly_exceeded", "weekly_warning",
                st.weekly_spent, weekly_budget_limit[1])
    /\ \A k \in 1..Len(budget_limits) :
          LET c == budget_limits[k].category
              L == budget_limits[k].limit
          IN (/\ L > 0
              /\ c \in DOMAIN st.category_expenses
              /\ st.category_expenses[c] > 0) =>
                Tiers(AlertsOfCategory(st.alerts, c),
                      "category_exceeded", "category_warning",
                      st.category_expenses[c], L)

\* C8 case: a status with a critical alert of one scope, a warning of
\* another and a third scope under 80% of its limit.
C8_Witness ==
    /\ status.fault = "None"
    /\ LET st == status.value IN
       /\ \E i, j \in 1..Len(st.alerts) :
             /\ st.alerts[i].severity = "critical"
             /\ st.alerts[j].severity = "warning"
       /\ \E k \in 1..Len(budget_limits) :
             /\ budget_limits[k].limit > 0
             /\ budget_limits[k].category \in DOMAIN st.category_expenses
             /\ AlertsOfCategory(st.alerts, budget_limits[k].category) = << >>

\* C9: for every budget configuration the setters reach, evaluate returns
\* a status without an arithmetic fault, and a scope whose limit is 0 or
\* unset contributes no alert.
C9_NoFaultOnZeroLimit ==
    LET result == status IN
    /\ result.fault # "ZeroDivisionError"
    /\ result.fault = "None" =>
          LET st == result.value IN
          /\ ~Truthy(monthly_budget_limit) =>
                AlertsOfType(st.alerts,
                             {"monthly_exceeded", "monthly_warning"}) = << >>
          /\ ~Truthy(weekly_budget_limit) =>
                AlertsOfType(st.alerts,
                             {"weekly_exceeded", "weekly_warning"}) = << >>
          /\ \A c \in LimitCategories :
                (\A k \in 1..Len(budget_limits) :
                    budget_limits[k].category = c =>
                        budget_limits[k].limit = 0)
                => AlertsOfCategory(st.alerts, c) = << >>

\* Hours since 1970-01-01T00 of a naive datetime.
Hours(dt) == DayNumber(dt.y, dt.mo, dt.d) * 24 + dt.h

\* 00:00 of the most recent Monday at or before now, in hours: the day
\* among now's day and the six before it that is a whole number of weeks
\* from Monday 2025-03-03.
WeekStartHours(now) ==
    LET today == DayNumber(now.y, now.mo, now.d)
        monday == CHOOSE D \in (today - 6)..today :
                      (D - DayNumber(2025, 3, 3)) % 7 = 0
    IN monday * 24

InWeek(d, now) == WeekStartHours(now) <= Hours(d) /\ Hours(d) <= Hours(now)

\* C10: weeklySpent is the base-currency sum of exactly the Expense
\* transactions dated from 00:00 of the most recent Monday to now; an
\* Expense dated 7 days or more before now is not counted, and no Income is.
C10_WeeklyWindow ==
    LET result == status IN
    result.fault = "None" =>
    LET n == Len(transactions)
        expenses == {i \in 1..n : transactions[i].type = "Expense"}
        counted == {i \in expenses :
                      InWeek(fromisoformat(transactions[i].date), Now)}
    IN
    /\ result.value.weekly_spent = SumBase(transactions, counted)
    /\ \A i \in counted :
          Hours(fromisoformat(transactions[i].date)) > Hours(Now) - 7 * 24

\* C10 case: a status over an Expense of this week, an Expense dated 7
\* days or more before now and an Expense or Income outside the sum.
C10_Witness ==
    /\ status.fault = "None"
    /\ status.value.weekly_spent > 0
    /\ \E i \in 1..Len(transactions) :
          /\ transactions[i].type = "Expense"
          /\ Hours(fromisoformat(transactions[i].date)) <= Hours(Now) - 7 * 24

\* TRUE when d lies in the calendar month of now, in now's year, and not
\* after now.
InMonth(d, now) == d.y = now.y /\ d.mo = now.mo /\ Hours(d) <= Hours(now)

\* C11: monthlySpent is the base-currency sum of exactly the Expense
\* transactions dated from the first instant of now's month (of now's year)
\* to now; an Expense of the same month-number of another year, of an
\* earlier month or dated after now is not counted.
C11_MonthlyWindow ==
    LET result == status IN
    result.fault = "None" =>
    LET n == Len(transactions)
        expenses == {i \in 1..n : transactions[i].type = "Expense"}
        counted == {i \in expenses :
                      InMonth(fromisoformat(transactions[i].date), Now)}
    IN result.value.monthly_spent = SumBase(transactions, counted)

\* C11 case: a status that counts an Expense of this month while the
\* ledger holds an Expense of the same month-number of another year.
C11_Witness ==
    /\ status.fault = "None"
    /\ status.value.monthly_spent > 0
    /\ \E i \in 1..Len(transactions) :
          /\ transactions[i].type = "Expense"
          /\ fromisoformat(transactions[i].date).mo = Now.mo
          /\ fromisoformat(transactions[i].date).y # Now.y

----------------------------------------------------------------------------
(* Properties of the category registry *)

\* TRUE when some stored transaction has exactly this category.
Referenced(name) ==
    \E i \in 1..Len(transactions) : transactions[i].category = name

\* The category list of a type, before and after the step.
ListOf(type) ==
    IF type = "Income" THEN income_categories ELSE expense_categories

ListOfNext(type) ==
    IF type = "Income" THEN income_categories' ELSE expense_categories'

\* C12: remove_category(name, kind) returns False, changes neither
\* category list and writes nothing whenever some stored transaction's
\* category equals name exactly, whichever kind is given and whatever the
\* kind of that transaction.
C12_RemoveRefusedWhileInUse ==
    [][\A name \in RemoveCategoryNames, type \in CategoryTypes,
          ok \in WriteOutcomes :
          (/\ last'.op = "remove_category"
           /\ Referenced(name)
           /\ remove_category(name, type, ok))
          => /\ last'.ret = "False"
             /\ UNCHANGED catVars]_vars

\* C12 case: a removal was refused while "Food" is in the Expense list,
\* an Income transaction has the category "Food" and an Expense
\* transaction has the category "food".
C12_Witness ==
    /\ last = Call("remove_category", "False")
    /\ InList(expense_categories, "Food")
    /\ \E i \in 1..Len(transactions) :
          transactions[i].category = "Food" /\ transactions[i].type = "Income"

\* C13 as stated: remove_category fails whenever a transaction references
\* the name and succeeds whenever none does, after which get_categories no
\* longer contains the name.
C13_RemoveSucceedsUnlessReferenced ==
    [][\A name \in RemoveCategoryNames, type \in CategoryTypes,
          ok \in WriteOutcomes :
          (last'.op = "remove_category" /\ remove_category(name, type, ok))
          => IF Referenced(name)
             THEN last'.ret = "False"
             ELSE /\ last'.ret = "True"
                  /\ ~InList(ListOfNext(type), name)]_vars

\* C13 amended: remove_category fails whenever a transaction references
\* the name or the name is not in the list of the given kind (or the kind
\* is neither Income nor Expense), and succeeds otherwise, after which
\* get_categories(kind) no longer contains the name.
C13_RemoveSucceedsWhenListed ==
    [][\A name \in RemoveCategoryNames, type \in CategoryTypes,
          ok \in WriteOutcomes :
          (last'.op = "remove_category" /\ remove_category(name, type, ok))
          => IF \/ Referenced(name)
                \/ type \notin {"Income", "Expense"}
                \/ ~InList(ListOf(type), name)
             THEN last'.ret = "False"
             ELSE /\ last'.ret = "True"
                  /\ ~InList(get_categories(type)', name)]_vars

\* C13 case: a removal succeeded and "Food", which an Expense transaction
\* spells "food", is no longer in the Expense list.
C13_Witness ==
    /\ last = Call("remove_category", "True")
    /\ ~InList(expense_categories, "Food")
    /\ Referenced("food")

\* C14: add_category(name, kind), for kind Income or Expense, trims the
\* name; it returns False and leaves both lists and the file unchanged
\* when the trimmed name is empty or already in kind's list; otherwise it
\* appends the trimmed name at the end of kind's list only, writes the
\* registry to categories.json and returns True.
C14_AddCategory ==
    [][\A name \in AddCategoryNames, type \in {"Income", "Expense"},
          ok \in WriteOutcomes :
          (last'.op = "add_category" /\ add_category(name, type, ok))
          => LET other == IF type = "Income" THEN "Expense" ELSE "Income" IN
             IF Strip(name) = "" \/ InList(ListOf(type), Strip(name))
             THEN /\ last'.ret = "False"
                  /\ UNCHANGED catVars
             ELSE /\ last'.ret = "True"
                  /\ ListOfNext(type) = Append(ListOf(type), Strip(name))
                  /\ ListOfNext(other) = ListOf(other)
                  /\ categories_json' =
                         Some([income_categories |-> income_categories',
                               expense_categories |-> expense_categories'])
            ]_vars

\* C14 case: an add succeeded and the trimmed name "Food" is the last of
\* the Income list while the Expense list has it too.
C14_Witness ==
    /\ last = Call("add_category", "True")
    /\ income_categories[Len(income_categories)] = "Food"
    /\ InList(expense_categories, "Food")

----------------------------------------------------------------------------
(* Properties of export and import *)

\* The (date, amount, currency, category, type) tuple of a transaction.
Tuple(t) == <<t.date, t.amount, t.currency, t.category, t.type>>

\* C15: importing the CSV file a ledger was just exported to gives the
\* same (date, amount, currency, category, type) tuples in the same order,
\* with the ids 1..n in file order.
C15_CsvRoundTrip ==
    [][(last = Call("save_to_csv", "True") /\ last'.op = "load_from_csv")
       => /\ last'.ret = "True"
          /\ Len(transactions') = Len(transactions)
          /\ \A i \in 1..Len(transactions) :
                /\ Tuple(transactions'[i]) = Tuple(transactions[i])
                /\ transactions'[i].id = i]_vars

\* The ledger an import of these file rows is to give: the rows that have
\* all of date, amount, category and type, in file order, numbered from 1,
\* with the base currency where the row has no currency.
Imported(rows) ==
    LET kept == SelectSeq(rows, LAMBDA row :
                    {"date", "amount", "category", "type"} \subseteq row.keys)
    IN [i \in 1..Len(kept) |->
           [date     |-> kept[i].date,
            amount   |-> Float(kept[i].amount),
            currency |-> IF "currency" \in kept[i].keys THEN kept[i].currency
                         ELSE "USD",
            category |-> kept[i].category,
            type     |-> kept[i].type,
            id       |-> i]]

\* C16: a successful CSV or JSON import replaces the whole ledger by the
\* file's rows that have all of date, amount, category and type, in file
\* order, with ids 1..n and the base currency where the row has none.
C16_ImportReplaces ==
    [][/\ \A file \in CsvFiles :
             (/\ last' = Call("load_from_csv", "True")
              /\ load_from_csv(file))
             => transactions' = Imported(file.rows)
       /\ \A file \in JsonFiles :
             (/\ last' = Call("load_from_json", "True")
              /\ load_from_json(file))
             => transactions' = Imported(file.rows)]_vars

\* C17: whenever load_from_csv or load_from_json returns False (file
\* missing, malformed document, or an amount no row's float() accepts,
\* also in a row after valid ones), the transaction list is the one
\* before the call.
C17_FailedLoadKeepsLedger ==
    [][(/\ last'.op \in {"load_from_csv", "load_from_json"}
        /\ last'.ret = "False")
       => transactions' = transactions]_vars

\* C17 case: a load has failed on a ledger that holds transactions.
C17_Witness ==
    /\ last.op \in {"load_from_csv", "load_from_json"}
    /\ last.ret = "False"
    /\ Len(transactions) > 0

----------------------------------------------------------------------------
(* Properties of the settings files *)

\* C18: with the settings files writable, right after every successful
\* add_category or remove_category the document in categories.json is the
\* two category lists in full, and right after every set_monthly_budget,
\* set_weekly_budget, set_category_budget and successful
\* remove_category_budget the document in budget_settings.json is the
\* monthly limit, the weekly limit and all category limits.
C18_SettingsAutoSave ==
    [][/\ (/\ last'.op \in {"add_category", "remove_category"}
           /\ last'.ret = "True")
          => categories_json' =
                 Some([income_categories  |-> income_categories',
                       expense_categories |-> expense_categories'])
       /\ (\/ last'.op \in {"set_monthly_budget", "set_weekly_budget",
                             "set_category_budget"}
           \/ last' = Call("remove_category_budget", "True"))
          => budget_settings_json' =
                 Some([monthly_budget_limit |-> monthly_budget_limit',
                       weekly_budget_limit  |-> weekly_budget_limit',
                       category_limits      |-> budget_limits'])]_vars

\* C18 case: a category limit was just removed from a configuration with
\* a monthly limit, after a change of the category registry was saved.
C18_Witness ==
    /\ last = Call("remove_category_budget", "True")
    /\ monthly_budget_limit # None
    /\ budget_settings_json # None
    /\ categories_json # None
    /\ categories_json[1].income_categories = income_categories

\* C19: every operation whose file write or read fails returns False:
\* save_to_csv, save_to_json, load_from_csv, load_from_json, add_category,
\* remove_category, set_monthly_budget, set_weekly_budget,
\* set_category_budget and remove_category_budget.
C19_IoFailureReturnsFalse ==
    [][/\ (last'.op = "save_to_csv" /\ save_to_csv(FALSE))
          => last'.ret = "False"
       /\ (last'.op = "save_to_json" /\ save_to_json(FALSE))
          => last'.ret = "False"
       /\ (last'.op = "load_from_csv" /\ csv_file = None)
          => last'.ret = "False"
       /\ (last'.op = "load_from_json" /\ json_file = None)
          => last'.ret = "False"
       /\ (/\ last'.op = "add_category"
           /\ income_categories' # income_categories
           /\ add_category(" Food ", "Income", FALSE))
          => last'.ret = "False"
       /\ (/\ last'.op = "remove_category"
           /\ income_categories' # income_categories
           /\ remove_category("Gift", "Income", FALSE))
          => last'.ret = "False"
       /\ (/\ last'.op = "set_monthly_budget"
           /\ \E limit \in SettingsLimits : set_monthly_budget(limit, FALSE))
          => last'.ret = "False"
       /\ (/\ last'.op = "set_weekly_budget"
           /\ \E limit \in SettingsLimits : set_weekly_budget(limit, FALSE))
          => last'.ret = "False"
       /\ (/\ last'.op = "set_category_budget"
           /\ \E category \in SettingsLimitCategories,
                 limit \in SettingsLimits :
                 set_category_budget(category, limit, FALSE))
          => last'.ret = "False"
       /\ (/\ last'.op = "remove_category_budget"
           /\ budget_limits' # budget_limits
           /\ \E category \in SettingsLimitCategories :
                 remove_category_budget(category, FALSE))
          => last'.ret = "False"]_vars

----------------------------------------------------------------------------
(* Properties of the conversion.  A value v in units of 1/Unit USD is the  *)
(* quotient a / rate, to the resolution of the unit, when                  *)
(* v <= a * Unit / rate < v + 1.                                           *)

IsQuotient(v, a, rate) ==
    /\ v * rate[1] <= a * Unit * rate[2]
    /\ a * Unit * rate[2] < (v + 1) * rate[1]

\* C20 as stated: convert_to_usd(amount, currency) is amount / rate for
\* every currency of the rate table, and amount unchanged for every other
\* currency code.
C20_QuotientOfAmount ==
    last.op = "convert_to_usd" =>
        LET amount == last.ret[1]
            currency == last.ret[2]
            value == last.ret[3]
        IN IF currency \in DOMAIN exchange_rates
           THEN IsQuotient(value, amount, exchange_rates[currency])
           ELSE value = amount * Unit

\* C20 amended: convert_to_usd(amount, currency) is |amount| / rate for
\* every currency of the rate table (amount / rate for an amount that is
\* not negative, so 100 EUR give 100/0.91 and x USD give |x|), and amount
\* unchanged, its sign included, for every other currency code.
C20_QuotientOfMagnitude ==
    last.op = "convert_to_usd" =>
        LET amount == last.ret[1]
            currency == last.ret[2]
            value == last.ret[3]
        IN IF currency \in DOMAIN exchange_rates
           THEN /\ IsQuotient(value, Abs(amount), exchange_rates[currency])
                /\ currency = "USD" => value = Abs(amount) * Unit
                /\ currency = "EUR" => value * 91 = Abs(amount) * Unit * 100
           ELSE value = amount * Unit

\* C20 case: 100 EUR were converted to 100/0.91 USD.
C20_Witness ==
    /\ last.op = "convert_to_usd"
    /\ last.ret = <<100, "EUR", (100 * 100 * Unit) \div 91>>

\* C21: convert_to_usd takes every amount as its magnitude: for every
\* amount, negative ones included, and every currency code, in the rate
\* table or not, the result is not negative and is the result for the
\* absolute value of the amount.
C21_MagnitudeForEveryCurrency ==
    last.op = "convert_to_usd" =>
        LET amount == last.ret[1]
            currency == last.ret[2]
            value == last.ret[3]
        IN /\ value >= 0
           /\ value = convert_to_usd(Abs(amount), currency)

----------------------------------------------------------------------------
(* Properties of construction *)

\* C22: a tracker constructed while categories.json and
\* budget_settings.json exist starts with the category lists and the budget
\* configuration of those documents, the last a previous tracker wrote;
\* for a side file that is missing the state starts at its defaults: the
\* default category lists; no monthly limit, no weekly limit and no
\* category limit.
C22_SettingsSurviveRestart ==
    [][last'.op = "__init__" =>
        /\ IF categories_json = None
           THEN /\ income_categories' = default_income_categories
                /\ expense_categories' = default_expense_categories
           ELSE /\ income_categories' = categories_json[1].income_categories
                /\ expense_categories' =
                       categories_json[1].expense_categories
        /\ IF budget_settings_json = None
           THEN /\ monthly_budget_limit' = None
                /\ weekly_budget_limit' = None
                /\ budget_limits' = << >>
           ELSE /\ monthly_budget_limit' =
                       budget_settings_json[1].monthly_budget_limit
                /\ weekly_budget_limit' =
                       budget_settings_json[1].weekly_budget_limit
                /\ budget_limits' = budget_settings_json[1].category_limits
        /\ UNCHANGED <<categories_json, budget_settings_json>>]_vars

\* C22 case: a tracker was constructed on both side files and holds the
\* added category, the monthly limit and a category limit.
C22_Witness ==
    /\ last.op = "__init__"
    /\ categories_json # None
    /\ budget_settings_json # None
    /\ InList(income_categories, "Food")
    /\ monthly_budget_limit # None
    /\ budget_limits # << >>

----------------------------------------------------------------------------
(* Properties of the budget status *)

\* The sum of the values of the function f over the keys in S.
RECURSIVE SumValues(_, _)
SumValues(f, S) ==
    IF S = {} THEN 0
    ELSE LET k == CHOOSE x \in S : TRUE
         IN f[k] + SumValues(f, S \ {k})

\* C23: category_expenses is computed over the same window as
\* monthly_spent: for every category c it is the base-currency sum of the
\* Expense transactions of c dated from the start of now's month to now,
\* so its values add up to monthly_spent, also when the ledger holds
\* expenses dated after now.
C23_CategoryWindowIsMonthWindow ==
    LET result == status IN
    result.fault = "None" =>
    LET spent == result.value.category_expenses
        InWindow(c) ==
            {i \in 1..Len(transactions) :
                /\ transactions[i].type = "Expense"
                /\ transactions[i].category = c
                /\ InMonth(fromisoformat(transactions[i].date), Now)}
    IN
    /\ \A c \in DOMAIN spent :
          spent[c] = SumBase(transactions, InWindow(c))
    /\ SumValues(spent, DOMAIN spent) = result.value.monthly_spent


\* The scope of an alert: 1 monthly, 2 weekly, 3 a category.
Scope(alert) ==
    IF alert.type \in {"monthly_exceeded", "monthly_warning"} THEN 1
    ELSE IF alert.type \in {"weekly_exceeded", "weekly_warning"} THEN 2
    ELSE 3

\* The place of a category among the configured limits, 0 when it has none.
Place(limits, category) ==
    IF \E k \in 1..Len(limits) : limits[k].category = category
    THEN CHOOSE k \in 1..Len(limits) : limits[k].category = category
    ELSE 0

\* The alerts come by scope, the category alerts by the place of their
\* category among the configured limits, one alert at most per scope and
\* per configured category.
AlertsOrdered(alerts, limits) ==
    /\ Len(AlertsOfType(alerts, {"monthly_exceeded", "monthly_warning"})) <= 1
    /\ Len(AlertsOfType(alerts, {"weekly_exceeded", "weekly_warning"})) <= 1
    /\ \A k \in 1..Len(alerts) :
          Scope(alerts[k]) = 3 =>
              /\ Place(limits, alerts[k].message[1]) > 0
              /\ Len(AlertsOfCategory(alerts, alerts[k].message[1])) = 1
    /\ \A i, j \in 1..Len(alerts) :
          i < j =>
              /\ Scope(alerts[i]) <= Scope(alerts[j])
              /\ Scope(alerts[i]) = 3 =>
                    Place(limits, alerts[i].message[1])
                        < Place(limits, alerts[j].message[1])

\* The configured limits keep the order in which they were first
\* configured: a step leaves the categories it keeps in their order and
\* puts a category it newly configures last.
FirstConfiguredOrderKept ==
    \A c, d \in LimitCategories :
        /\ (/\ Place(budget_limits, c) > 0
            /\ Place(budget_limits, c) < Place(budget_limits, d)
            /\ Place(budget_limits', c) > 0
            /\ Place(budget_limits', d) > 0)
           => Place(budget_limits', c) < Place(budget_limits', d)
        /\ (Place(budget_limits, c) = 0 /\ Place(budget_limits', c) > 0)
           => Place(budget_limits', c) = Len(budget_limits')

\* C24: the alerts get_budget_status returns are ordered: the monthly
\* alert (if any), then the weekly alert (if any), then the category alerts
\* in the order in which the category limits were first configured, with
\* at most one alert for the month, one for the week and one per
\* configured category.
C24_AlertsOrdered ==
    /\ [](status.fault = "None"
            => AlertsOrdered(status.value.alerts, budget_limits))
    /\ [][FirstConfiguredOrderKept]_vars

\* C24 case: the limit of Rent was configured before that of Food, the
\* limit of Rent was set again, and the status holds a monthly, a weekly
\* and both category alerts, that of Rent before that of Food.
C24_Witness ==
    /\ last.op = "set_category_budget"
    /\ status.fault = "None"
    /\ Len(status.value.alerts) = 4
    /\ Scope(status.value.alerts[1]) = 1
    /\ Scope(status.value.alerts[2]) = 2
    /\ status.value.alerts[3].message[1] = "Rent"
    /\ status.value.alerts[4].message[1] = "Food"
    /\ budget_limits[1].limit = 5
    /\ budget_limits[2].limit = 10

----------------------------------------------------------------------------
(* Properties of failed writes *)

\* What a call that raised no exception hands back to the caller.
Returned == {"True", "False", "None"}

\* C25: a failed write of categories.json or budget_settings.json does
\* not roll back the change in memory: after add_category,
\* remove_category, set_monthly_budget, set_weekly_budget,
\* set_category_budget or remove_category_budget whose write failed, the
\* lists and the budget configuration hold the new value, the file is as
\* it was, and the call returned without raising.
C25_FailedWriteKeepsMutation ==
    [][/\ (/\ last'.op = "add_category"
           /\ ~InList(income_categories, "Food")
           /\ add_category(" Food ", "Income", FALSE))
          => /\ InList(income_categories', "Food")
             /\ categories_json' = categories_json
             /\ last'.ret \in Returned
       /\ (/\ last'.op = "remove_category"
           /\ InList(income_categories, "Gift")
           /\ remove_category("Gift", "Income", FALSE))
          => /\ ~InList(income_categories', "Gift")
             /\ categories_json' = categories_json
             /\ last'.ret \in Returned
       /\ \A limit \in SettingsLimits :
             (/\ last'.op = "set_monthly_budget"
              /\ set_monthly_budget(limit, FALSE))
             => /\ monthly_budget_limit' = Some(limit)
                /\ budget_settings_json' = budget_settings_json
                /\ last'.ret \in Returned
       /\ \A limit \in SettingsLimits :
             (/\ last'.op = "set_weekly_budget"
              /\ set_weekly_budget(limit, FALSE))
             => /\ weekly_budget_limit' = Some(limit)
                /\ budget_settings_json' = budget_settings_json
                /\ last'.ret \in Returned
       /\ \A category \in SettingsLimitCategories, limit \in SettingsLimits :
             (/\ last'.op = "set_category_budget"
              /\ set_category_budget(category, limit, FALSE))
             => /\ \E k \in 1..Len(budget_limits') :
                      budget_limits'[k] =
                          [category |-> category, limit |-> limit]
                /\ budget_settings_json' = budget_settings_json
                /\ last'.ret \in Returned
       /\ \A category \in SettingsLimitCategories :
             (/\ last'.op = "remove_category_budget"
              /\ Place(budget_limits, category) > 0
              /\ remove_category_budget(category, FALSE))
             => /\ Place(budget_limits', category) = 0
                /\ budget_settings_json' = budget_settings_json
                /\ last'.ret \in Returned
      ]_vars

\* C25 case: no write of either file has succeeded, and memory holds an
\* added category, lacks a removed one and holds the limits set.
C25_Witness ==
    /\ categories_json = None
    /\ budget_settings_json = None
    /\ InList(income_categories, "Food")
    /\ ~InList(income_categories, "Gift")
    /\ monthly_budget_limit # None
    /\ weekly_budget_limit # None
    /\ Len(budget_limits) = 1

\* C26: get_budget_status returns a status and raises nothing for every
\* ledger add_transaction can build, whatever date strings the caller
\* passed: a date that is no ISO timestamp or one that carries a time
\* zone included.
C26_StatusNeverRaises == status.fault = "None"

----------------------------------------------------------------------------
(* Frame properties *)

LedgerMutations ==
    {"add_transaction", "remove_transaction", "clear_all_transactions",
     "load_from_csv", "load_from_json"}

LedgerExports == {"save_to_csv", "save_to_json"}

SettingsOperations ==
    {"add_category", "remove_category", "set_monthly_budget",
     "set_weekly_budget", "set_category_budget", "remove_category_budget"}

Queries ==
    {"get_summary", "get_transactions", "get_transaction_count",
     "get_budget_status"}

\* The category lists and the budget configuration in memory.
Registry == <<income_categories, expense_categories>>
Configuration == <<monthly_budget_limit, weekly_budget_limit, budget_limits>>

\* C27: the ledger, the category registry and the budget configuration
\* are independent: add, remove, clear, import and export leave the
\* category lists and the budget configuration as they are and write
\* neither categories.json nor budget_settings.json; the category and
\* budget operations leave the transactions as they are; get_summary,
\* get_transactions, get_transaction_count and get_budget_status change
\* none of the three and write no file; and no change of the ledger writes
\* a ledger file.
C27_Independent ==
    [][/\ last'.op \in LedgerMutations \cup LedgerExports
          => UNCHANGED <<Registry, Configuration, categories_json,
                         budget_settings_json>>
       /\ last'.op \in LedgerExports => UNCHANGED transactions
       /\ last'.op \in SettingsOperations
          => UNCHANGED <<transactions, csv_file, json_file>>
       /\ last'.op \in Queries
          => UNCHANGED <<transactions, Registry, Configuration,
                         categories_json, budget_settings_json,
                         csv_file, json_file>>
       /\ last'.op \in LedgerMutations
          => UNCHANGED <<csv_file, json_file>>
      ]_vars

\* C27 case: with a transaction in the ledger, a category added, a limit
\* set and all four files written, the status was queried.
C27_Witness ==
    /\ last.op = "get_budget_status"
    /\ Len(transactions) > 0
    /\ InList(income_categories, "Food")
    /\ Len(budget_limits) > 0
    /\ categories_json # None
    /\ budget_settings_json # None
    /\ csv_file # None
    /\ json_file # None


\* The limit configured for a category, None when it has none.
LimitOf(limits, category) ==
    IF Place(limits, category) > 0
    THEN Some(limits[Place(limits, category)].limit)
    ELSE None

\* The entries of the categories other than the given one are as before.
OthersKept(category) ==
    \A other \in LimitCategories \ {category} :
        LimitOf(budget_limits', other) = LimitOf(budget_limits, other)

\* C28: the budget limits are set and removed independently:
\* set_monthly_budget changes the monthly limit alone, set_weekly_budget
\* the weekly limit alone, set_category_budget(c, x) the entry of c alone;
\* remove_category_budget(c) returns True exactly when c has a limit and
\* then removes that entry alone; when it returns False the configuration
\* is unchanged and nothing is written.
C28_LimitsIndependent ==
    [][/\ \A limit \in AlertLimits :
             (/\ last'.op = "set_monthly_budget"
              /\ set_monthly_budget(limit, TRUE))
             => /\ monthly_budget_limit' = Some(limit)
                /\ UNCHANGED <<weekly_budget_limit, budget_limits>>
       /\ \A limit \in AlertLimits :
             (/\ last'.op = "set_weekly_budget"
              /\ set_weekly_budget(limit, TRUE))
             => /\ weekly_budget_limit' = Some(limit)
                /\ UNCHANGED <<monthly_budget_limit, budget_limits>>
       /\ \A category \in LimitCategories, limit \in AlertLimits :
             (/\ last'.op = "set_category_budget"
              /\ set_category_budget(category, limit, TRUE))
             => /\ LimitOf(budget_limits', category) = Some(limit)
                /\ OthersKept(category)
                /\ UNCHANGED <<monthly_budget_limit, weekly_budget_limit>>
       /\ \A category \in LimitCategories :
             (/\ last'.op = "remove_category_budget"
              /\ remove_category_budget(category, TRUE))
             => /\ last'.ret = "True" <=> Place(budget_limits, category) > 0
                /\ last'.ret = "True"
                   => /\ Place(budget_limits', category) = 0
                      /\ OthersKept(category)
                      /\ UNCHANGED <<monthly_budget_limit,
                                     weekly_budget_limit>>
                /\ last'.ret = "False"
                   => UNCHANGED <<Configuration, budget_settings_json>>
      ]_vars

\* C28 case: with the monthly and weekly limits set, the limit of one of
\* two configured categories was removed and the other is still there.
C28_Witness ==
    /\ last = Call("remove_category_budget", "True")
    /\ Len(budget_limits) = 1
    /\ monthly_budget_limit # None
    /\ weekly_budget_limit # None

----------------------------------------------------------------------------
(* Properties of the category lists *)

\* No name is at two places of the list.
Unique(list) ==
    \A i, j \in 1..Len(list) : list[i] = list[j] => i = j

\* No name of the list is empty or has white space around it.
Stripped(list) ==
    \A k \in 1..Len(list) : list[k] # "" /\ Strip(list[k]) = list[k]

\* C29: after any add_category and remove_category calls from the
\* default lists, neither the income list nor the expense list holds a
\* name twice, and no name held is empty or has leading or trailing white
\* space; a name may be in both lists.
C29_CategoryListsAreSets ==
    /\ Unique(income_categories) /\ Unique(expense_categories)
    /\ Stripped(income_categories) /\ Stripped(expense_categories)
    /\ \A k \in 1..Len(income_categories) :
          income_categories[k] \notin {" Food ", "  "}
    /\ \A k \in 1..Len(expense_categories) :
          expense_categories[k] \notin {" Food ", "  "}

\* C29 case: a name of the default expense list, given with white space
\* around it, was added to the income list after a default income
\* category was removed; it is in both lists.
C29_Witness ==
    /\ InList(income_categories, "Food")
    /\ InList(expense_categories, "Food")
    /\ Len(income_categories) = Len(default_income_categories)
    /\ last = Call("add_category", "True")

----------------------------------------------------------------------------
(* Properties of the primary currency *)

\* The number of transactions in a currency, and the place of the first.
NumberIn(currency) ==
    Cardinality({i \in 1..Len(transactions) :
                    transactions[i].currency = currency})

FirstIn(currency) ==
    CHOOSE i \in 1..Len(transactions) :
        /\ transactions[i].currency = currency
        /\ \A j \in 1..(i - 1) : transactions[j].currency # currency

\* C30: get_primary_currency returns USD for an empty ledger; otherwise
\* it returns a currency that no other currency exceeds in number of
\* transactions, and among the currencies with that number the one whose
\* first transaction comes first in the ledger.
C30_PrimaryCurrency ==
    [][last'.op = "get_primary_currency" =>
       LET result == last'.ret
           used == {transactions[i].currency : i \in 1..Len(transactions)}
       IN IF transactions = << >> THEN result = "USD"
          ELSE /\ result \in used
               /\ \A c \in used : NumberIn(c) <= NumberIn(result)
               /\ \A c \in used \ {result} :
                     NumberIn(c) = NumberIn(result)
                        => FirstIn(result) < FirstIn(c)
      ]_vars

\* C30 case: two currencies have one transaction each, the first of them
\* is not the base currency, and it was returned.
C30_Witness ==
    /\ last = Call("get_primary_currency", "EUR")
    /\ Len(transactions) = 2
    /\ transactions[1].currency = "EUR"
    /\ transactions[2].currency = "USD"

====
